---- MODULE Spec2Model ----
(***************************************************************************)
(* Model of src/app.py: the report parser (parse_docx_report), the history *)
(* merge and serializer (create_docx_report) and the Streamlit workflow    *)
(* (main).                                                                 *)
(*                                                                         *)
(* Text is a sequence of symbols.  A symbol is one character (" ", ":",    *)
(* ";", a digit ...) or an atom standing for a fixed run of letters that   *)
(* holds none of the characters the code looks for ("Stats Report",        *)
(* "Overall Rating", a category name, a junk word).  A paragraph is a      *)
(* text, a document is a sequence of paragraphs.                           *)
(* Numbers are held in tenths: 82.0 is 820, 62.5 is 625.                   *)
(***************************************************************************)
EXTENDS Integers, Sequences, FiniteSets, TLC

\* ------------------------------------------------------------------------
\* Bounds of the model
\* ------------------------------------------------------------------------
MaxParas == 4
MaxToks == 2
MaxSubs == 2
MaxWidgets == 1
MaxPrev == 2
MaxEvals == 3
MaxDay == 2

\* ------------------------------------------------------------------------
\* Symbols
\* ------------------------------------------------------------------------
Space == " "
Colon == ":"
Semi == ";"
EnDash == "<en-dash>"
Hyphen == "-"
Dot == "."
Bullet == "<bullet>"
StatsReport == "Stats Report"
OverallRatingsByDate == "Overall Ratings by Date"
OverallRating == "Overall Rating"
ReportGenerated == "Report Generated"

DigitSeq == << "0", "1", "2", "3", "4", "5", "6", "7", "8", "9" >>

IsDigit(c) == \E i \in 1..10 : DigitSeq[i] = c

DigitVal(c) == (CHOOSE i \in 1..10 : DigitSeq[i] = c) - 1

IsSpace(c) == c = Space

\* ------------------------------------------------------------------------
\* str methods used by the code
\* ------------------------------------------------------------------------
RECURSIVE LStrip(_)
LStrip(s) == IF s # << >> /\ IsSpace(Head(s)) THEN LStrip(Tail(s)) ELSE s

RECURSIVE RStrip(_)
RStrip(s) ==
    IF s # << >> /\ IsSpace(s[Len(s)]) THEN RStrip(SubSeq(s, 1, Len(s) - 1)) ELSE s

\* str.strip()
Strip(s) == LStrip(RStrip(s))

\* "c in s"
Contains(s, c) == \E i \in 1..Len(s) : s[i] = c

\* s.endswith(atom), s.startswith(prefix)
EndsWith(s, c) == s # << >> /\ s[Len(s)] = c

StartsWith(s, p) == Len(s) >= Len(p) /\ SubSeq(s, 1, Len(p)) = p

\* s.replace(atom, ""): every occurrence goes
RECURSIVE Remove(_, _)
Remove(s, c) ==
    IF s = << >> THEN << >>
    ELSE IF Head(s) = c THEN Remove(Tail(s), c)
    ELSE << Head(s) >> \o Remove(Tail(s), c)

\* s.split(sep): the parts between the separators, k separators give k+1 parts
RECURSIVE Split(_, _)
Split(s, sep) ==
    IF ~Contains(s, sep) THEN << s >>
    ELSE LET i == CHOOSE k \in 1..Len(s) :
                      s[k] = sep /\ \A j \in 1..(k - 1) : s[j] # sep
         IN  << SubSeq(s, 1, i - 1) >> \o Split(SubSeq(s, i + 1, Len(s)), sep)

\* sep.join(parts)
RECURSIVE Join(_, _)
Join(parts, sep) ==
    IF parts = << >> THEN << >>
    ELSE IF Len(parts) = 1 THEN parts[1]
    ELSE parts[1] \o sep \o Join(Tail(parts), sep)

\* ------------------------------------------------------------------------
\* float(token) and f"{v:.1f}"
\* ------------------------------------------------------------------------
RECURSIVE DigitsToNat(_)
DigitsToNat(ds) ==
    IF ds = << >> THEN 0
    ELSE DigitsToNat(SubSeq(ds, 1, Len(ds) - 1)) * 10 + DigitVal(ds[Len(ds)])

RECURSIVE NatToDigits(_)
NatToDigits(n) ==
    IF n < 10 THEN << DigitSeq[n + 1] >>
    ELSE NatToDigits(n \div 10) \o << DigitSeq[(n % 10) + 1] >>

AllDigits(s) == \A i \in 1..Len(s) : IsDigit(s[i])

Abs(n) == IF n < 0 THEN -n ELSE n

ValueError == [err |-> TRUE, val |-> 0]

Ok(v) == [err |-> FALSE, val |-> v]

\* float(tok) of a stripped token, in tenths.  The numerals of the model carry
\* at most one fractional digit, as every numeral the serializer writes does.
ParseFloat(tok) ==
    LET neg == tok # << >> /\ Head(tok) = Hyphen
        body == IF neg THEN Tail(tok) ELSE tok
        parts == Split(body, Dot)
        ip == parts[1]
        fp == IF Len(parts) = 2 THEN parts[2] ELSE << >>
    IN  IF Len(parts) > 2 \/ ~AllDigits(ip) \/ ~AllDigits(fp)
           \/ Len(ip) + Len(fp) = 0 \/ Len(fp) > 1
        THEN ValueError
        ELSE LET mag == DigitsToNat(ip) * 10 + DigitsToNat(fp)
             IN  Ok(IF neg THEN -mag ELSE mag)

\* f"{v:.1f}" of a value held in tenths
FormatF1(v) ==
    (IF v < 0 THEN << Hyphen >> ELSE << >>)
        \o NatToDigits(Abs(v) \div 10) \o << Dot >> \o NatToDigits(Abs(v) % 10)

\* ------------------------------------------------------------------------
\* parse_docx_report
\* ------------------------------------------------------------------------
None == [some |-> FALSE]

Some(v) == [some |-> TRUE, val |-> v]

EmptyDict == << >>

\* d[k] = v on a dict
DictPut(d, k, v) == [x \in (DOMAIN d) \cup {k} |-> IF x = k THEN v ELSE d[x]]

\* line 84
EmptyMeta ==
    [player_type |-> None, player_name |-> None,
     category_history |-> EmptyDict, overall_history |-> << >>]

\* lines 84 and 86: the locals of parse_docx_report before the loop
ParseStart == [meta |-> EmptyMeta, overall_header_seen |-> FALSE, raised |-> FALSE]

Raise(st) == [st EXCEPT !.raised = TRUE]

FirstIndex(s, c) == CHOOSE k \in 1..Len(s) : s[k] = c /\ \A j \in 1..(k - 1) : s[j] # c

\* cat_pattern = ^<bullet>\s*([^:]+):\s*(.+)$ on a stripped text: the text
\* starts with the bullet, its first colon has a character between the
\* bullet and itself and a character after itself
CatPatternMatch(text) ==
    /\ text # << >>
    /\ Head(text) = Bullet
    /\ Contains(text, Colon)
    /\ FirstIndex(text, Colon) >= 3
    /\ FirstIndex(text, Colon) < Len(text)

\* m.group(1) and m.group(2)
CatGroup1(text) == SubSeq(text, 2, FirstIndex(text, Colon) - 1)

CatGroup2(text) == LStrip(SubSeq(text, FirstIndex(text, Colon) + 1, Len(text)))

\* [float(x.strip()) for x in toks if x.strip()]: the floats of the tokens
\* that are not blank, or ValueError at the first token float() rejects
RECURSIVE FloatList(_)
FloatList(toks) ==
    IF toks = << >> THEN Ok(<< >>)
    ELSE LET x == Strip(Head(toks))
             rest == FloatList(Tail(toks))
         IN  IF x = << >> THEN rest
             ELSE IF ParseFloat(x).err \/ rest.err THEN ValueError
             ELSE Ok(<< ParseFloat(x).val >> \o rest.val)

\* re.match(r"^\d{4}-\d{2}-\d{2}:", text)
DatePatternMatch(text) ==
    /\ Len(text) >= 11
    /\ \A i \in {1, 2, 3, 4, 6, 7, 9, 10} : IsDigit(text[i])
    /\ text[5] = Hyphen
    /\ text[8] = Hyphen
    /\ text[11] = Colon

OverallHeaderText == << OverallRatingsByDate, Colon >>

OverallRatingPrefix == << OverallRating, Colon >>

\* lines 90-92: a heading line.  The tuple assignment of line 90 raises
\* ValueError unless the split gives two parts.
OnHeading_FirstWins(st, text) ==
    LET parts == Split(Remove(text, StatsReport), EnDash) IN
    IF Len(parts) # 2 THEN Raise(st)
    ELSE IF st.meta.player_name.some THEN st
    ELSE [st EXCEPT !.meta.player_name = Some(Strip(parts[1])),
                    !.meta.player_type = Some(Strip(parts[2]))]

OnHeading(st, text) ==
    LET parts == Split(Remove(text, StatsReport), EnDash) IN
    IF Len(parts) # 2 THEN Raise(st)
    ELSE [st EXCEPT !.meta.player_name = Some(Strip(parts[1])),
                    !.meta.player_type = Some(Strip(parts[2]))]

\* lines 94-97: a bullet line.  float() of line 96 raises ValueError on a
\* token that is no number.
OnBullet_Extend(st, text) ==
    LET cat == Strip(CatGroup1(text))
        vals == FloatList(Split(CatGroup2(text), Semi))
        old == IF cat \in DOMAIN st.meta.category_history
               THEN st.meta.category_history[cat] ELSE << >>
    IN  IF vals.err THEN Raise(st)
        ELSE [st EXCEPT !.meta.category_history =
                            DictPut(st.meta.category_history, cat, old \o vals.val)]

OnBullet(st, text) ==
    LET cat == Strip(CatGroup1(text))
        vals == FloatList(Split(CatGroup2(text), Semi))
    IN  IF vals.err THEN Raise(st)
        ELSE [st EXCEPT !.meta.category_history =
                            DictPut(st.meta.category_history, cat, vals.val)]

\* line 99
OnOverallHeader(st) == [st EXCEPT !.overall_header_seen = TRUE]

\* lines 101-102: a date entry.  The tuple assignment of line 101 raises
\* ValueError unless the split gives two parts, float() of line 102 on a
\* value that is no number.
OnDate_Prepend(st, text) ==
    LET parts == Split(text, Colon) IN
    IF Len(parts) # 2 THEN Raise(st)
    ELSE IF ParseFloat(Strip(parts[2])).err THEN Raise(st)
    ELSE [st EXCEPT !.meta.overall_history =
                        << << Strip(parts[1]), ParseFloat(Strip(parts[2])).val >> >>
                            \o st.meta.overall_history]

OnDate(st, text) ==
    LET parts == Split(text, Colon) IN
    IF Len(parts) # 2 THEN Raise(st)
    ELSE IF ParseFloat(Strip(parts[2])).err THEN Raise(st)
    ELSE [st EXCEPT !.meta.overall_history =
                        Append(st.meta.overall_history,
                               << Strip(parts[1]), ParseFloat(Strip(parts[2])).val >>)]

\* line 107
OnBlank_KeepsFlag(st) == st

OnBlank(st) == [st EXCEPT !.overall_header_seen = FALSE]

\* lines 88-107: the body of the loop over doc.paragraphs
ParseLine(st, para) ==
    LET text == Strip(para) IN
    IF EndsWith(text, StatsReport) /\ Contains(text, EnDash) THEN OnHeading(st, text)
    ELSE IF CatPatternMatch(text) THEN OnBullet(st, text)
    ELSE IF text = OverallHeaderText THEN OnOverallHeader(st)
    ELSE IF st.overall_header_seen /\ DatePatternMatch(text) THEN OnDate(st, text)
    ELSE IF StartsWith(text, OverallRatingPrefix) THEN st
    ELSE IF text = << >> THEN OnBlank(st)
    ELSE st

\* lines 84-108: the whole function on the paragraphs of a document; an
\* exception leaves the loop at the paragraph that raised it
RECURSIVE ParseFrom(_, _)
ParseFrom(st, paras) ==
    IF paras = << >> \/ st.raised THEN st
    ELSE ParseFrom(ParseLine(st, Head(paras)), Tail(paras))

parse_docx_report(paras) == ParseFrom(ParseStart, paras)

\* ------------------------------------------------------------------------
\* The lines of a report, as create_docx_report formats them
\* ------------------------------------------------------------------------
\* line 136
HeadingLine(name, type) ==
    name \o << Space, EnDash, Space >> \o type \o << Space, StatsReport >>

\* line 145
ValsStr_LastOnly(vals) == FormatF1(vals[Len(vals)])

ValsStr(vals) == Join([i \in 1..Len(vals) |-> FormatF1(vals[i])], << Semi, Space >>)

\* line 146
BulletLine(cat, valsText) == << Bullet, Space >> \o cat \o << Colon, Space >> \o valsText

\* line 150
OverallRatingLine(overall_score) ==
    OverallRatingPrefix \o << Space >> \o FormatF1(overall_score)
        \o << Space, "/", Space, "1", "2", "0" >>

\* line 156
DateLine(dateText, v) == dateText \o << Colon, Space >> \o FormatF1(v)

\* datetime.now().strftime("%Y-%m-%d") on day d of the model's calendar
DateText(d) ==
    << "2", "0", "2", "4", Hyphen, "0", "1", Hyphen, "1" >> \o NatToDigits(d % 10)

\* ------------------------------------------------------------------------
\* State
\* ------------------------------------------------------------------------
VARIABLES
    meta,                 \* parse_docx_report: the record being filled (line 84)
    overall_header_seen,  \* parse_docx_report: the block flag (line 86)
    pstatus,              \* parse_docx_report: "reading", "raised" or "returned"
    nread,                \* paragraphs consumed so far
    lastRead,             \* the paragraph consumed last, as it was built, and how many
                          \* values its category had before
    lastHeading,          \* name and type of the heading line consumed last
    blockPhase,           \* how far "header, one date entry, blank line" has got
    call,                 \* the arguments of a call of create_docx_report
    out,                  \* what that call gave
    reparsed,             \* parse_docx_report on the document of that call
    mpc,                  \* "init", "created", "failed" or "parsed"
    mode,                 \* st.session_state.mode: "None", "new" or "edit"
    prefill_meta,         \* st.session_state.prefill_meta
    scriptError,          \* the exception that ended the last run of main
    report,               \* the document of the last download button
    today,                \* the day datetime.now() gives
    nsaved,               \* reports produced so far
    saves,                \* reports produced in this session
    base,                 \* the evaluations behind the document this session began with
    baseOK,               \* the session began fresh or with the last report of a chain
    evals,                \* the evaluations behind report
    chained,              \* report ends a chain of sessions that each saved once
    uploader,             \* the file the uploader of line 183 holds while it is on the page
    widget_keys,          \* whether st.session_state holds keys of score widgets
    session_doc           \* the document this session was begun with

parseVars ==
    << meta, overall_header_seen, pstatus, nread, lastRead, lastHeading, blockPhase >>

mergeVars == << call, out, reparsed, mpc >>

appVars ==
    << mode, prefill_meta, scriptError, report, today, nsaved, saves, base, baseOK,
       evals, chained, uploader, widget_keys, session_doc >>

vars == << parseVars, mergeVars, appVars >>

\* ------------------------------------------------------------------------
\* The paragraphs a document may hold
\* ------------------------------------------------------------------------
Cats == { << "A" >>, << "B" >> }

\* the order in which a taxonomy lists its categories (the keys of scores)
CatOrder == << << "A" >>, << "B" >> >>

\* a token of a value list: a numeral, a word that is no number, or nothing
NumTok(v) == [kind |-> "num", val |-> v]

WordTok == [kind |-> "word", val |-> 0]

BlankTok == [kind |-> "blank", val |-> 0]

TokenPool == { NumTok(700), NumTok(850), WordTok, BlankTok }

TokText(t) ==
    IF t.kind = "num" THEN FormatF1(t.val)
    ELSE IF t.kind = "word" THEN << "oops" >>
    ELSE << >>

TokLists == UNION { [1..n -> TokenPool] : n \in 1..MaxToks }

TokListText(toks) == Join([i \in 1..Len(toks) |-> TokText(toks[i])], << Semi, Space >>)

\* the date entries of the pool: a day of the calendar and a value
DateEntries == { << 1, 820 >>, << 2, 900 >> }

\* the heading lines of the pool: a name and a type
Headings == { << << "P1" >>, << "T1" >> >>, << << "P2" >>, << "T2" >> >> }

\* paragraphs of no recognised shape, and shapes the parser trips over
TwoDashHeading ==
    << "P1", Space, EnDash, Space, "T1", Space, EnDash, Space, "x", Space, StatsReport >>

NoDashHeading == << "P1", Space, StatsReport >>

TwoColonDate == DateLine(DateText(1), 820) \o << Colon, "0", "0" >>

WordDate == DateText(1) \o << Colon, Space, "oops" >>

SeparatorWidth == 38

SeparatorLine == [i \in 1..SeparatorWidth |-> Hyphen]

TimestampLine(d) ==
    << ReportGenerated, Colon, Space >> \o DateText(d)
        \o << Space, "0", "0", Colon, "0", "0", Colon, "0", "0" >>

JunkLine == << "oops", Space, "x" >>

OtherLines ==
    { TwoDashHeading, NoDashHeading, TwoColonDate, WordDate, OverallRatingLine(820),
      SeparatorLine, TimestampLine(1), JunkLine }

BlankLines == { << >>, << Space >> }

NoRead == [kind |-> "none", cat |-> << >>, toks |-> << >>, before |-> 0]

NoHeading == [count |-> 0, name |-> << >>, type |-> << >>]

\* ------------------------------------------------------------------------
\* parse_docx_report, one paragraph of doc.paragraphs at a time
\* ------------------------------------------------------------------------
\* the values of the variables a specification does not use
NoCall ==
    [player_name |-> << >>, player_type |-> << >>, scores |-> EmptyDict,
     prev_cat_history |-> EmptyDict, prev_overall_history |-> << >>, day |-> 1]

NoDoc == << >>

NoOut ==
    [raised |-> FALSE, doc |-> NoDoc, cat_history |-> EmptyDict,
     overall_history |-> << >>, prev_after |-> EmptyDict]

ParseIdle ==
    /\ meta = EmptyMeta
    /\ overall_header_seen = FALSE
    /\ pstatus = "returned"
    /\ nread = 0
    /\ lastRead = NoRead
    /\ lastHeading = NoHeading
    /\ blockPhase = "none"

MergeIdle ==
    /\ call = NoCall
    /\ out = NoOut
    /\ reparsed = ParseStart
    /\ mpc = "idle"

AppIdle ==
    /\ mode = "None"
    /\ prefill_meta = EmptyDict
    /\ scriptError = "none"
    /\ report = None
    /\ today = 1
    /\ nsaved = 0
    /\ saves = 0
    /\ base = << >>
    /\ baseOK = FALSE
    /\ evals = << >>
    /\ chained = FALSE
    /\ uploader = None
    /\ widget_keys = FALSE
    /\ session_doc = None

ParseInit ==
    /\ meta = EmptyMeta
    /\ overall_header_seen = FALSE
    /\ pstatus = "reading"
    /\ nread = 0
    /\ lastRead = NoRead
    /\ lastHeading = NoHeading
    /\ blockPhase = "none"
    /\ MergeIdle
    /\ AppIdle

\* one turn of the loop of line 87 on the paragraph para
Consume(para) ==
    LET st == ParseLine([meta |-> meta, overall_header_seen |-> overall_header_seen,
                         raised |-> FALSE], para)
    IN  /\ pstatus = "reading"
        /\ nread < MaxParas
        /\ nread' = nread + 1
        /\ meta' = st.meta
        /\ overall_header_seen' = st.overall_header_seen
        /\ pstatus' = IF st.raised THEN "raised" ELSE "reading"

\* the phase after a paragraph that is neither the header, a date entry nor blank
PhaseAfterOther == IF blockPhase \in {"closed", "reopened"} THEN blockPhase ELSE "none"

ReadHeading(n, t) ==
    /\ Consume(HeadingLine(n, t))
    /\ lastRead' = [NoRead EXCEPT !.kind = "heading"]
    /\ lastHeading' = [count |-> lastHeading.count + 1, name |-> n, type |-> t]
    /\ blockPhase' = PhaseAfterOther

ReadBullet(c, toks) ==
    /\ Consume(BulletLine(c, TokListText(toks)))
    /\ lastRead' = [NoRead EXCEPT !.kind = "bullet", !.cat = c, !.toks = toks,
                                  !.before = IF c \in DOMAIN meta.category_history
                                             THEN Len(meta.category_history[c]) ELSE 0]
    /\ blockPhase' = PhaseAfterOther
    /\ UNCHANGED lastHeading

ReadOverallHeader ==
    /\ Consume(OverallHeaderText)
    /\ lastRead' = [NoRead EXCEPT !.kind = "header"]
    /\ blockPhase' = IF blockPhase \in {"closed", "reopened"} THEN "reopened" ELSE "header"
    /\ UNCHANGED lastHeading

ReadDate(d, v) ==
    /\ Consume(DateLine(DateText(d), v))
    /\ lastRead' = [NoRead EXCEPT !.kind = "date"]
    /\ blockPhase' = IF blockPhase = "header" THEN "entry" ELSE PhaseAfterOther
    /\ UNCHANGED lastHeading

ReadBlank(b) ==
    /\ Consume(b)
    /\ lastRead' = [NoRead EXCEPT !.kind = "blank"]
    /\ blockPhase' = IF blockPhase = "entry" THEN "closed" ELSE PhaseAfterOther
    /\ UNCHANGED lastHeading

ReadOther(l) ==
    /\ Consume(l)
    /\ lastRead' = [NoRead EXCEPT !.kind = "other"]
    /\ blockPhase' = PhaseAfterOther
    /\ UNCHANGED lastHeading

\* line 108
Return ==
    /\ pstatus = "reading"
    /\ pstatus' = "returned"
    /\ UNCHANGED << meta, overall_header_seen, nread, lastRead, lastHeading, blockPhase >>

ParseNext ==
    \/ \E h \in Headings : ReadHeading(h[1], h[2]) /\ UNCHANGED << mergeVars, appVars >>
    \/ \E c \in Cats, toks \in TokLists : ReadBullet(c, toks) /\ UNCHANGED << mergeVars, appVars >>
    \/ (ReadOverallHeader /\ UNCHANGED << mergeVars, appVars >>)
    \/ \E e \in DateEntries : ReadDate(e[1], e[2]) /\ UNCHANGED << mergeVars, appVars >>
    \/ \E b \in BlankLines : ReadBlank(b) /\ UNCHANGED << mergeVars, appVars >>
    \/ \E l \in OtherLines : ReadOther(l) /\ UNCHANGED << mergeVars, appVars >>
    \/ (Return /\ UNCHANGED << mergeVars, appVars >>)

SpecParse == ParseInit /\ [][ParseNext]_vars

\* ------------------------------------------------------------------------
\* category_average and create_docx_report
\* ------------------------------------------------------------------------
\* A mean is held as a fraction num/den.  round(x, 1) rounds half to even
\* where the float is exact; with the sizes of the model a tie has den 4.
StatisticsError == [err |-> TRUE, num |-> 0, den |-> 1]

Rat(n, d) == [err |-> FALSE, num |-> n, den |-> d]

RECURSIVE SumInts(_)
SumInts(xs) == IF xs = << >> THEN 0 ELSE Head(xs) + SumInts(Tail(xs))

\* the sum of a sequence of fractions
RECURSIVE SumRats(_)
SumRats(rs) ==
    IF rs = << >> THEN Rat(0, 1)
    ELSE LET t == SumRats(Tail(rs))
         IN  Rat(Head(rs).num * t.den + t.num * Head(rs).den, Head(rs).den * t.den)

\* lines 24-25: statistics.mean of the values of one category
category_average_ZeroOnEmpty(sub_scores) ==
    IF sub_scores = << >> THEN Rat(0, 1)
    ELSE Rat(SumInts(sub_scores), Len(sub_scores))

category_average(sub_scores) ==
    IF sub_scores = << >> THEN StatisticsError
    ELSE Rat(SumInts(sub_scores), Len(sub_scores))

\* round(x, 1) of a fraction that is not negative, in tenths
Round1(r) ==
    LET q == (10 * r.num) \div r.den
        m == (10 * r.num) % r.den
    IN  IF 2 * m < r.den THEN q
        ELSE IF 2 * m > r.den THEN q + 1
        ELSE IF q % 2 = 0 THEN q ELSE q + 1

\* scores.keys(): the categories of the matrix in taxonomy order
Keys(scores) == SelectSeq(CatOrder, LAMBDA c : c \in DOMAIN scores)

\* line 126: statistics.mean over the category averages, which raises on a
\* matrix with no category and passes on what category_average raises
OverallMean_Pooled(scores) ==
    LET ks == Keys(scores)
        sums == [i \in 1..Len(ks) |-> SumInts(scores[ks[i]])]
        lens == [i \in 1..Len(ks) |-> Len(scores[ks[i]])]
    IN  IF ks = << >> \/ \E i \in 1..Len(ks) : lens[i] = 0 THEN StatisticsError
        ELSE Rat(SumInts(sums), SumInts(lens))

OverallMean(scores) ==
    LET ks == Keys(scores)
        avgs == [i \in 1..Len(ks) |-> category_average(scores[ks[i]])]
        sum == SumRats(avgs)
    IN  IF ks = << >> \/ \E i \in 1..Len(ks) : avgs[i].err THEN StatisticsError
        ELSE Rat(sum.num, sum.den * Len(ks))

\* line 118: prev_cat_history.copy() if prev_cat_history else {}.  The copy is
\* shallow: the lists of the copy are the lists of prev_cat_history.
StartHistory_Fresh(prev_cat_history) == EmptyDict

StartHistory(prev_cat_history) == prev_cat_history

\* lines 118 and 123: what an append to the list of cat in the local dict
\* does to the caller's dict.  A list that came with the copy is the
\* caller's list; a list made on line 122 is in the copy alone.
AliasedAppend_NoCopy(prev, cat, new) == DictPut(prev, cat, new)

AliasedAppend(prev, cat, new) ==
    IF cat \in DOMAIN prev THEN DictPut(prev, cat, new) ELSE prev

\* lines 119-123.  h is [cat_history, prev, raised]: the local dict, the
\* caller's dict (whose lists line 123 appends to when the category came
\* with the copy) and whether category_average has raised.
RECURSIVE MergeLoop(_, _, _)
MergeLoop(h, ks, scores) ==
    IF ks = << >> \/ h.raised THEN h
    ELSE LET cat == Head(ks)
             avg == category_average(scores[cat])
             old == IF cat \in DOMAIN h.cat_history THEN h.cat_history[cat] ELSE << >>
             new == Append(old, Round1(avg))
         IN  IF avg.err THEN [h EXCEPT !.raised = TRUE]
             ELSE MergeLoop(
                      [h EXCEPT !.cat_history = DictPut(h.cat_history, cat, new),
                                !.prev = AliasedAppend(h.prev, cat, new)],
                      Tail(ks), scores)

\* lines 127-129
AppendOverall_Dedup(prev_overall_history, date_str, overall_score) ==
    SelectSeq(prev_overall_history, LAMBDA e : e[1] # date_str)
        \o << << date_str, overall_score >> >>

AppendOverall(prev_overall_history, date_str, overall_score) ==
    Append(prev_overall_history, << date_str, overall_score >>)

\* lines 143-146: one bullet line for each category of the matrix
BulletLines(ks, cat_history) ==
    [i \in 1..Len(ks) |-> BulletLine(ks[i], ValsStr(cat_history[ks[i]]))]

\* lines 155-156
DateLines(overall_history) ==
    [i \in 1..Len(overall_history) |->
        DateLine(overall_history[i][1], overall_history[i][2])]

\* lines 135-156: the paragraphs of the document.  add_picture (line 139)
\* makes a paragraph without text.
DocParas(player_name, player_type, day, ks, cat_history, overall_score, overall_history) ==
    << HeadingLine(player_name, player_type), TimestampLine(day), << >>, << >> >>
        \o BulletLines(ks, cat_history)
        \o << << >>, OverallRatingLine(overall_score), SeparatorLine, OverallHeaderText >>
        \o DateLines(overall_history)

\* lines 110-160.  day is the day datetime.now() gives.  The result holds
\* whether the call raised, the paragraphs of the document returned, the
\* locals cat_history and overall_history, and the caller's
\* prev_cat_history as the call leaves it.
create_docx_report(player_name, player_type, scores, prev_cat_history, prev_overall_history, day) ==
    LET h == MergeLoop([cat_history |-> StartHistory(prev_cat_history),
                        prev |-> prev_cat_history, raised |-> FALSE],
                       Keys(scores), scores)
        mean == OverallMean(scores)
        overall_score == Round1(mean)
        overall_history == AppendOverall(prev_overall_history, DateText(day), overall_score)
    IN  IF h.raised \/ mean.err
        THEN [raised |-> TRUE, doc |-> NoDoc, cat_history |-> h.cat_history,
              overall_history |-> << >>, prev_after |-> h.prev]
        ELSE [raised |-> FALSE,
              doc |-> DocParas(player_name, player_type, day, Keys(scores),
                               h.cat_history, overall_score, overall_history),
              cat_history |-> h.cat_history,
              overall_history |-> overall_history,
              prev_after |-> h.prev]

\* ------------------------------------------------------------------------
\* create_docx_report called on drawn arguments, and its document parsed
\* ------------------------------------------------------------------------
ScoreVals == { 40, 85 }

\* the values of the sub-skills of one category
SubScores == UNION { [1..n -> ScoreVals] : n \in 0..MaxSubs }

\* the score matrices: some categories, each with its values
Matrices == UNION { [D -> SubScores] : D \in SUBSET Cats }

\* a matrix with a score above the range of the widgets
OverRangeMatrices == { [c \in { << "A" >> } |-> << 150 >>] }

\* a prior history of n values, all different
HistVal(i) == 600 + 75 * i

PriorHist(n) == [i \in 1..n |-> HistVal(i)]

PriorCatHistories ==
    UNION { [D -> { PriorHist(n) : n \in 0..MaxPrev }] : D \in SUBSET Cats }

\* a prior overall history of n entries, the days not decreasing
EntryDay(i) == IF i < MaxDay THEN i ELSE MaxDay

PriorOverall(n) == [i \in 1..n |-> << DateText(EntryDay(i)), 800 + 15 * i >>]

PriorOverallHistories == { PriorOverall(n) : n \in 0..MaxPrev }

MergeInit ==
    /\ ParseIdle
    /\ AppIdle
    /\ \E h \in Headings, m \in Matrices \cup OverRangeMatrices, pc \in PriorCatHistories,
          po \in PriorOverallHistories, d \in 1..MaxDay :
           call = [player_name |-> h[1], player_type |-> h[2], scores |-> m,
                   prev_cat_history |-> pc, prev_overall_history |-> po, day |-> d]
    /\ out = NoOut
    /\ reparsed = ParseStart
    /\ mpc = "init"

\* the call returns a document
Create ==
    LET r == create_docx_report(call.player_name, call.player_type, call.scores,
                                call.prev_cat_history, call.prev_overall_history,
                                call.day)
    IN  /\ mpc = "init"
        /\ ~r.raised
        /\ out' = r
        /\ mpc' = "created"
        /\ UNCHANGED << call, reparsed >>

\* the call raises
CreateFails ==
    LET r == create_docx_report(call.player_name, call.player_type, call.scores,
                                call.prev_cat_history, call.prev_overall_history,
                                call.day)
    IN  /\ mpc = "init"
        /\ r.raised
        /\ out' = r
        /\ mpc' = "failed"
        /\ UNCHANGED << call, reparsed >>

\* the document is parsed again
Reparse ==
    /\ mpc = "created"
    /\ reparsed' = parse_docx_report(out.doc)
    /\ mpc' = "parsed"
    /\ UNCHANGED << call, out >>

MergeNext ==
    \/ (Create /\ UNCHANGED << parseVars, appVars >>)
    \/ (CreateFails /\ UNCHANGED << parseVars, appVars >>)
    \/ (Reparse /\ UNCHANGED << parseVars, appVars >>)

SpecMerge == MergeInit /\ [][MergeNext]_vars

\* ------------------------------------------------------------------------
\* main: one action for each run of the script that an interaction starts
\* ------------------------------------------------------------------------
\* documents that main did not write: a paragraph of no recognised shape,
\* a heading line and nothing else, a bullet line whose value is no number
ForeignDocs ==
    { << JunkLine >>, << HeadingLine(<< "P1" >>, << "T1" >>) >>,
      << BulletLine(<< "A" >>, << "oops" >>) >> }

\* the players PLAYER_INFO offers in the select boxes of lines 204-205, as
\* name and type
Players == { << << "P1" >>, << "T1" >> >> }

\* the matrices the widgets of lines 216-299 can hold: each widget gives a
\* value from 1 to 100
WidgetMatrices ==
    { m \in Matrices : \A c \in DOMAIN m :
          /\ Len(m[c]) <= MaxWidgets
          /\ \A i \in 1..Len(m[c]) : m[c][i] >= 1 /\ m[c][i] <= 100 }

\* the skillsets PLAYER_INFO can give a run (lines 210, 258), as the number
\* of sub-skills of each category: no category, or every category with the
\* same number
Skillsets == { [c \in D |-> n] : D \in { {}, Cats }, n \in 0..MaxWidgets }

\* whether the widgets of a run put keys into st.session_state (lines
\* 231-297): one key for each sub-skill
WidgetKeys(sk) == \E c \in DOMAIN sk : sk[c] > 0

\* lines 305-307 on the matrix the widgets of the skillset sk give: a
\* category without sub-skills, or no category, ends the run in
\* statistics.mean
SkillRaises(sk) == DOMAIN sk = {} \/ \E c \in DOMAIN sk : sk[c] = 0

\* d.get(key, default)
DictGet(d, key, default) == IF key \in DOMAIN d THEN d[key] ELSE default

\* the truth value of prefill_meta.get(key) for the keys of line 199
Truthy(d, key) == key \in DOMAIN d /\ d[key].some /\ d[key].val # << >>

\* lines 305-307: the averages the page shows
PageRaises(m) == OverallMean(m).err

\* what an evaluation with the matrix m on day d adds to the histories
EvalOf(m, d) ==
    [avgs |-> [c \in DOMAIN m |-> Round1(category_average(m[c]))],
     overall |-> Round1(OverallMean(m)),
     day |-> d]

\* lines 178-180: the first run of the script
Init ==
    /\ ParseIdle
    /\ MergeIdle
    /\ mode = "None"
    /\ prefill_meta = EmptyDict
    /\ scriptError = "none"
    /\ report = None
    /\ today = 1
    /\ nsaved = 0
    /\ saves = 0
    /\ base = << >>
    /\ baseOK = FALSE
    /\ evals = << >>
    /\ chained = FALSE
    /\ uploader = None
    /\ widget_keys = FALSE
    /\ session_doc = None

\* lines 185-187 and 196-307 in a run where the uploader gives doc and the
\* page is built for the skillset sk.  Line 186 sets the mode before line 187 parses,
\* so a parse that raises leaves the mode "edit" and prefill_meta as line
\* 180 or an earlier run left it (before), and the run ends there.
UploadRun(doc, sk, before) ==
    LET r == parse_docx_report(doc) IN
    /\ mode' = "edit"
    /\ prefill_meta' = IF r.raised THEN before ELSE r.meta
    /\ scriptError' = IF r.raised THEN "ValueError"
                      ELSE IF SkillRaises(sk) THEN "StatisticsError" ELSE "none"
    /\ widget_keys' = IF r.raised THEN FALSE ELSE WidgetKeys(sk)
    /\ uploader' = Some(doc)
    /\ session_doc' = Some(doc)

\* lines 173-175, 178-194: the Reset/Start Over button.  Line 175 deletes
\* the keys st.session_state lists, the widget keys among them.  The
\* uploader has no key and is not listed: while it is on the page it gives
\* the file it holds to every run that reaches line 183, so a reset in the
\* run after the upload goes through lines 185-187 again.
Reset(sk) ==
    /\ saves' = 0
    /\ IF uploader.some
       THEN /\ UploadRun(uploader.val, sk, EmptyDict)
            /\ UNCHANGED << base, baseOK >>
       ELSE /\ mode' = "None"
            /\ prefill_meta' = EmptyDict
            /\ scriptError' = "none"
            /\ widget_keys' = FALSE
            /\ uploader' = None
            /\ session_doc' = None
            /\ base' = << >>
            /\ baseOK' = FALSE
    /\ UNCHANGED << report, today, nsaved, evals, chained >>

\* lines 182-187: a document is put into the uploader.  Sessions are begun
\* while an evaluation can still be saved (the bound MaxEvals of Save).
UploadDoc(doc, fromChain, sk) ==
    /\ mode = "None"
    /\ nsaved < MaxEvals
    /\ UploadRun(doc, sk, prefill_meta)
    /\ saves' = 0
    /\ base' = IF fromChain THEN evals ELSE << >>
    /\ baseOK' = fromChain
    /\ UNCHANGED << report, today, nsaved, evals, chained >>

\* the report of the last download is uploaded
UploadReport(sk) ==
    /\ report.some
    /\ UploadDoc(report.val, chained, sk)

\* another document is uploaded
UploadForeign(doc, sk) == UploadDoc(doc, FALSE, sk)

\* lines 188-190 and 196-307: the Create New Report button, the page
\* built for the skillset sk.  Sessions are begun while an evaluation can
\* still be saved (the bound MaxEvals of Save).
CreateNew(sk) ==
    /\ mode = "None"
    /\ nsaved < MaxEvals
    /\ mode' = "new"
    /\ prefill_meta' = EmptyDict
    /\ scriptError' = IF SkillRaises(sk) THEN "StatisticsError" ELSE "none"
    /\ widget_keys' = WidgetKeys(sk)
    /\ uploader' = None
    /\ session_doc' = None
    /\ saves' = 0
    /\ base' = << >>
    /\ baseOK' = TRUE
    /\ UNCHANGED << report, today, nsaved, evals, chained >>

\* lines 196-315: the Save Report as DOCX button with the widgets at m and,
\* where the heading of line 199 is not used, the select boxes at h.
\* cat_history is the dict prefill_meta holds and line 118 copies it
\* shallowly, so what line 123 appends to its lists is appended in
\* prefill_meta.
Save(m, h) ==
    LET use_existing == mode = "edit"
        locked == use_existing /\ Truthy(prefill_meta, "player_type")
                      /\ Truthy(prefill_meta, "player_name")
        player_type == IF locked THEN prefill_meta.player_type.val ELSE h[2]
        player_name == IF locked THEN prefill_meta.player_name.val ELSE h[1]
        cat_history == IF use_existing
                       THEN DictGet(prefill_meta, "category_history", EmptyDict)
                       ELSE EmptyDict
        overall_history == IF use_existing
                           THEN DictGet(prefill_meta, "overall_history", << >>)
                           ELSE << >>
        r == create_docx_report(player_name, player_type, m, cat_history,
                                overall_history, today)
    IN  /\ mode # "None"
        /\ nsaved < MaxEvals
        /\ ~PageRaises(m)
        /\ report' = Some(r.doc)
        /\ prefill_meta' = IF use_existing /\ "category_history" \in DOMAIN prefill_meta
                           THEN [prefill_meta EXCEPT !.category_history = r.prev_after]
                           ELSE prefill_meta
        /\ scriptError' = "none"
        /\ uploader' = None
        /\ nsaved' = nsaved + 1
        /\ saves' = saves + 1
        /\ evals' = Append(base, EvalOf(m, today))
        /\ chained' = (baseOK /\ saves = 0)
        /\ widget_keys' = TRUE
        /\ UNCHANGED << mode, today, base, baseOK, session_doc >>

\* lines 196-308: a widget is moved and the page is built; the uploader is
\* not on the page of this run
Rerun ==
    /\ mode # "None"
    /\ scriptError' = "none"
    /\ widget_keys' = TRUE
    /\ uploader' = None
    /\ UNCHANGED << mode, prefill_meta, report, today, nsaved, saves, base, baseOK,
                    evals, chained, session_doc >>

\* lines 301-307: with a category without sub-skills, or no category, the
\* run ends in statistics.mean before the Save button is reached
PageFails(sk) ==
    /\ mode # "None"
    /\ SkillRaises(sk)
    /\ scriptError' = "StatisticsError"
    /\ widget_keys' = WidgetKeys(sk)
    /\ uploader' = None
    /\ UNCHANGED << mode, prefill_meta, report, today, nsaved, saves, base, baseOK,
                    evals, chained, session_doc >>

\* the calendar moves on
NextDay ==
    /\ today < MaxDay
    /\ today' = today + 1
    /\ UNCHANGED << mode, prefill_meta, scriptError, report, nsaved, saves, base,
                    baseOK, evals, chained, uploader, widget_keys, session_doc >>

Next ==
    \/ \E sk \in Skillsets : Reset(sk) /\ UNCHANGED << parseVars, mergeVars >>
    \/ \E sk \in Skillsets : UploadReport(sk) /\ UNCHANGED << parseVars, mergeVars >>
    \/ \E doc \in ForeignDocs, sk \in Skillsets : UploadForeign(doc, sk) /\ UNCHANGED << parseVars, mergeVars >>
    \/ \E sk \in Skillsets : CreateNew(sk) /\ UNCHANGED << parseVars, mergeVars >>
    \/ \E m \in WidgetMatrices, h \in Players : Save(m, h) /\ UNCHANGED << parseVars, mergeVars >>
    \/ (Rerun /\ UNCHANGED << parseVars, mergeVars >>)
    \/ \E sk \in Skillsets : PageFails(sk) /\ UNCHANGED << parseVars, mergeVars >>
    \/ (NextDay /\ UNCHANGED << parseVars, mergeVars >>)

Spec == Init /\ [][Next]_vars

\* ------------------------------------------------------------------------
\* Properties of parse_docx_report (SpecParse)
\* ------------------------------------------------------------------------
\* the values of the numerals of a token list, in the order of the list
RECURSIVE NumVals(_)
NumVals(toks) ==
    IF toks = << >> THEN << >>
    ELSE (IF Head(toks).kind = "num" THEN << Head(toks).val >> ELSE << >>)
             \o NumVals(Tail(toks))

HasWord(toks) == \E i \in 1..Len(toks) : toks[i].kind = "word"

\* C4: a bullet line whose value list holds a token that is no number does
\* not raise; the token is dropped and the numerals left are the category's
\* history, in their order.
C4_MalformedTokenDropped ==
    (lastRead.kind = "bullet" /\ HasWord(lastRead.toks)) =>
        /\ pstatus # "raised"
        /\ lastRead.cat \in DOMAIN meta.category_history
        /\ meta.category_history[lastRead.cat] = NumVals(lastRead.toks)

\* C5: parse_docx_report raises on no sequence of paragraphs, and with no
\* recognisable paragraph it returns the empty record.
C5_ParsingNeverRaises ==
    /\ pstatus # "raised"
    /\ (pstatus = "returned" /\ lastRead.kind \in {"none", "other"} /\ lastHeading.count = 0
            /\ blockPhase = "none" /\ meta.category_history = EmptyDict
            /\ meta.overall_history = << >>)
           => meta = EmptyMeta

\* C6 as stated: after header, one date entry and a blank line the block
\* flag is false and no later paragraph adds to the overall history,
\* whatever is read afterwards.
C6_BlockClosedForGood ==
    [][(blockPhase \in {"closed", "reopened"}) =>
           (~overall_header_seen /\ (meta.overall_history)' = meta.overall_history)]_vars

\* C6 as amended: after header, one date entry and a blank line the block
\* flag is false and no paragraph adds to the overall history until the
\* header line is read again.
C6_BlockTermination ==
    [][(blockPhase = "closed") =>
           (~overall_header_seen /\ (meta.overall_history)' = meta.overall_history)]_vars

\* a date entry was read after the block was closed, and only the entry of
\* the block is in the history
C6_Witness ==
    /\ blockPhase = "closed"
    /\ lastRead.kind = "date"
    /\ pstatus = "reading"
    /\ Len(meta.overall_history) = 1

\* C7: the name and type returned are those of the last heading line read.
C7_LastHeadingWins ==
    (pstatus = "returned" /\ lastHeading.count >= 1) =>
        /\ meta.player_name = Some(lastHeading.name)
        /\ meta.player_type = Some(lastHeading.type)

\* two heading lines were read, then something else, and the parse returned
\* the second one
C7_Witness ==
    /\ pstatus = "returned"
    /\ lastHeading.count >= 2
    /\ lastRead.kind # "heading"
    /\ meta.player_name = Some(<< "P2" >>)
    /\ meta.player_type = Some(<< "T2" >>)

\* C15: a line `YYYY-MM-DD: <value>` is appended to the overall history, as
\* the pair of its date and its value and after the entries already there,
\* if the block flag is true when it is read, and changes nothing if the
\* flag is false; the flag is true when the header line was read and no
\* blank line since.
C15_DateLineCapture ==
    [][/\ \A e \in DateEntries :
              ReadDate(e[1], e[2]) =>
                  /\ pstatus' = "reading"
                  /\ (meta.overall_history)' =
                         IF overall_header_seen
                         THEN Append(meta.overall_history, << DateText(e[1]), e[2] >>)
                         ELSE meta.overall_history
       /\ (nread' = nread + 1 /\ pstatus' = "reading") =>
              overall_header_seen' =
                  IF lastRead'.kind = "header" THEN TRUE
                  ELSE IF lastRead'.kind = "blank" THEN FALSE
                  ELSE overall_header_seen
      ]_vars

\* two date lines were read with the flag true, the later date first, and
\* the history holds the two in the order they were read
C15_Witness ==
    /\ pstatus = "reading"
    /\ lastRead.kind = "date"
    /\ overall_header_seen
    /\ meta.overall_history = << << DateText(2), 900 >>, << DateText(1), 820 >> >>

AllNumeric(toks) == \A i \in 1..Len(toks) : toks[i].kind = "num"

\* the history of the category c in the record m, if it has one
HistoryOf(m, c) ==
    IF c \in DOMAIN m.category_history THEN Some(m.category_history[c]) ELSE None

\* C17: a bullet line whose value list is one numeral or more, separated by
\* semicolons, sets the history of its category to the values of the
\* numerals in their order, whatever the category held before; and no other
\* line changes the history of the category, so the history returned is
\* that of the last bullet line that names it.
C17_BulletLineSetsHistory ==
    [][/\ (nread' = nread + 1 /\ lastRead'.kind = "bullet" /\ AllNumeric(lastRead'.toks)) =>
              /\ pstatus' = "reading"
              /\ HistoryOf(meta', lastRead'.cat) = Some(NumVals(lastRead'.toks))
       /\ \A c \in Cats :
              HistoryOf(meta', c) # HistoryOf(meta, c) =>
                  (lastRead'.kind = "bullet" /\ lastRead'.cat = c)
      ]_vars

\* a bullet line with one numeral was read for a category that held two
\* values: the category holds the one value
C17_Witness ==
    /\ pstatus = "reading"
    /\ lastRead.kind = "bullet"
    /\ lastRead.before = 2
    /\ Len(lastRead.toks) = 1
    /\ AllNumeric(lastRead.toks)
    /\ meta.category_history[lastRead.cat] = NumVals(lastRead.toks)

\* ------------------------------------------------------------------------
\* Properties of create_docx_report (SpecMerge)
\* ------------------------------------------------------------------------
\* C1: parsing the document written for a report record whose histories
\* are not empty gives back the record's category history and its overall
\* history.
C1_RoundTrip ==
    (mpc = "parsed" /\ \A c \in DOMAIN out.cat_history : out.cat_history[c] # << >>) =>
        /\ ~reparsed.raised
        /\ reparsed.meta.category_history = out.cat_history
        /\ reparsed.meta.overall_history = out.overall_history

\* C8: a merge appends one pair dated today at the end of the overall
\* history and leaves the pairs before it as they were, also when one of
\* them is dated today.
C8_OneOverallEntryAppended ==
    mpc \in {"created", "parsed"} =>
        LET n == Len(call.prev_overall_history) IN
        /\ Len(out.overall_history) = n + 1
        /\ SubSeq(out.overall_history, 1, n) = call.prev_overall_history
        /\ out.overall_history[n + 1][1] = DateText(call.day)

\* a merge on a history that has an entry dated today gave two entries of
\* that date
C8_Witness ==
    /\ mpc = "created"
    /\ \E i \in 1..Len(call.prev_overall_history) :
           /\ call.prev_overall_history[i][1] = DateText(call.day)
           /\ out.overall_history[i][1] = DateText(call.day)
    /\ out.overall_history[Len(out.overall_history)][1] = DateText(call.day)

\* C9: a merge leaves the history of a category that is in the prior
\* history and not in the matrix as it was, and a category of the matrix
\* gains one entry.
C9_AbsentCategoryUntouched ==
    mpc \in {"created", "parsed"} =>
        /\ \A c \in (DOMAIN call.prev_cat_history) \ (DOMAIN call.scores) :
               /\ c \in DOMAIN out.cat_history
               /\ out.cat_history[c] = call.prev_cat_history[c]
        /\ \A c \in DOMAIN call.scores :
               /\ c \in DOMAIN out.cat_history
               /\ Len(out.cat_history[c]) =
                      (IF c \in DOMAIN call.prev_cat_history
                       THEN Len(call.prev_cat_history[c]) ELSE 0) + 1

\* a merge whose prior history has a category with entries that the matrix
\* has not, and whose matrix has a category
C9_Witness ==
    /\ mpc = "created"
    /\ \E c \in (DOMAIN call.prev_cat_history) \ (DOMAIN call.scores) :
           Len(out.cat_history[c]) >= 2
    /\ \E c \in (DOMAIN call.scores) \cap (DOMAIN call.prev_cat_history) :
           Len(out.cat_history[c]) >= 2

HasEmptyCategory(m) == \E c \in DOMAIN m : m[c] = << >>

\* C10: the average of no scores is an error, not a number, and
\* create_docx_report on a matrix with an empty category or with no
\* category raises and gives no document.
C10_EmptyAverageRaises ==
    /\ \A c \in DOMAIN call.scores :
           call.scores[c] = << >> => category_average(call.scores[c]).err
    /\ call.scores = EmptyDict => OverallMean(call.scores).err
    /\ (mpc # "init" /\ (HasEmptyCategory(call.scores) \/ call.scores = EmptyDict)) =>
           (mpc = "failed" /\ out.raised /\ out.doc = NoDoc)

\* a call whose matrix has a scored category and an empty one has raised
C10_Witness ==
    /\ mpc = "failed"
    /\ HasEmptyCategory(call.scores)
    /\ \E c \in DOMAIN call.scores : call.scores[c] # << >>

\* the scores of one category, each capped at 100
Capped(sub_scores) ==
    [i \in 1..Len(sub_scores) |-> IF sub_scores[i] > 100 THEN 100 ELSE sub_scores[i]]

\* C11: the value a merge appends for a category is the arithmetic mean of
\* the category's scores, rounded to one decimal, and category_average
\* supports the capped mode, where each score is capped at 100 before the
\* mean is taken.  category_average has no argument that chooses a mode, so
\* both modes are stated of the one function.
C11_AggregationCorrectness ==
    mpc \in {"created", "parsed"} =>
        \A c \in DOMAIN call.scores :
            LET xs == call.scores[c]
                h == out.cat_history[c]
            IN  /\ ~category_average(xs).err
                /\ h[Len(h)] = Round1(Rat(SumInts(xs), Len(xs)))
                /\ h[Len(h)] = Round1(Rat(SumInts(Capped(xs)), Len(xs)))

\* the product of the numbers of scores of the categories ks
RECURSIVE ProdLens(_, _)
ProdLens(scores, ks) ==
    IF ks = << >> THEN 1 ELSE Len(scores[Head(ks)]) * ProdLens(scores, Tail(ks))

\* the sum of the averages of the categories ks, times the common
\* denominator den
RECURSIVE SumOfAverages(_, _, _)
SumOfAverages(scores, ks, den) ==
    IF ks = << >> THEN 0
    ELSE SumInts(scores[Head(ks)]) * (den \div Len(scores[Head(ks)]))
             + SumOfAverages(scores, Tail(ks), den)

\* C16: the overall rating a merge appends is the mean of the averages of
\* the categories of the current matrix, to the nearest tenth: a value of
\* the matrix alone, whatever the prior histories hold.
C16_OverallFromCurrentScores ==
    mpc \in {"created", "parsed"} =>
        LET ks == Keys(call.scores)
            den == ProdLens(call.scores, ks)
            total == SumOfAverages(call.scores, ks, den)
            r == out.overall_history[Len(out.overall_history)][2]
        IN  2 * Abs(r * den * Len(ks) - 10 * total) <= den * Len(ks)

\* a merge on prior histories that are not empty, where the categories have
\* different numbers of scores and the mean 51.25 is rounded to 51.2
C16_Witness ==
    /\ mpc = "created"
    /\ call.prev_overall_history # << >>
    /\ \E c \in DOMAIN call.prev_cat_history : call.prev_cat_history[c] # << >>
    /\ \E c, d \in DOMAIN call.scores : Len(call.scores[c]) # Len(call.scores[d])
    /\ out.overall_history[Len(out.overall_history)][2] = 512

\* ------------------------------------------------------------------------
\* Properties of the chain of evaluations (Spec)
\* ------------------------------------------------------------------------
\* the averages of the category c in the evaluations es that scored it, in
\* the order of the evaluations
RECURSIVE AvgsOf(_, _)
AvgsOf(c, es) ==
    IF es = << >> THEN << >>
    ELSE (IF c \in DOMAIN Head(es).avgs THEN << Head(es).avgs[c] >> ELSE << >>)
             \o AvgsOf(c, Tail(es))

OverallsOf(es) == [i \in 1..Len(es) |-> << DateText(es[i].day), es[i].overall >>]

SameCategories(es) == \A i \in 1..Len(es) : DOMAIN es[i].avgs = DOMAIN es[1].avgs

\* what the report holds, read as parse_docx_report reads it
ReportMeta == parse_docx_report(report.val).meta

\* C2: at the end of a chain of evaluations, each on the report of the one
\* before, the history of every category of the latest report has one entry
\* for each evaluation that scored the category, with the values those
\* evaluations wrote in their order.
C2_AppendOnlyGrowth ==
    (report.some /\ chained) =>
        \A c \in DOMAIN ReportMeta.category_history :
            ReportMeta.category_history[c] = AvgsOf(c, evals)

\* C3: with the same categories scored in every evaluation of a chain, the
\* report of the k-th evaluation holds for every category its k rounded
\* averages in the order of the evaluations, and the k pairs of date and
\* overall rating in that order.
C3_Accumulation ==
    (report.some /\ chained /\ SameCategories(evals)) =>
        /\ DOMAIN ReportMeta.category_history = DOMAIN evals[1].avgs
        /\ \A c \in DOMAIN evals[1].avgs :
               /\ ReportMeta.category_history[c] = AvgsOf(c, evals)
               /\ Len(ReportMeta.category_history[c]) = Len(evals)
        /\ ReportMeta.overall_history = OverallsOf(evals)

\* the report of a third evaluation on a later day than the first, the
\* values of one category not all the same
C3_Witness ==
    /\ report.some
    /\ chained
    /\ SameCategories(evals)
    /\ Len(evals) = MaxEvals
    /\ evals[1].day < evals[Len(evals)].day
    /\ \E c \in DOMAIN evals[1].avgs : evals[1].avgs[c] # evals[Len(evals)].avgs[c]

\* ------------------------------------------------------------------------
\* Properties of the workflow of main (Spec)
\* ------------------------------------------------------------------------
\* C12: the mode starts at None; it changes only from None to "edit" on an
\* upload, prefill_meta then holding what parse_docx_report gave for the
\* uploaded document, from None to "new" on Create New Report, prefill_meta
\* then empty, and from "new" or "edit" to None; and prefill_meta does not
\* change while the mode stays "new" or "edit".
C12_WorkflowTransitions ==
    /\ mode = "None"
    /\ [][/\ (mode' # mode) =>
                \/ /\ mode = "None"
                   /\ mode' = "edit"
                   /\ uploader'.some
                   /\ ~parse_docx_report(uploader'.val).raised
                   /\ prefill_meta' = parse_docx_report(uploader'.val).meta
                \/ /\ mode = "None"
                   /\ mode' = "new"
                   /\ prefill_meta' = EmptyDict
                \/ /\ mode \in {"new", "edit"}
                   /\ mode' = "None"
          /\ (mode \in {"new", "edit"} /\ mode' = mode) => prefill_meta' = prefill_meta
         ]_vars

\* what a report holds, read as parse_docx_report reads it
MetaOf(doc) == parse_docx_report(doc).meta

\* C13: after a run that the Reset/Start Over button started the mode is
\* None, prefill_meta is empty and st.session_state holds no key of a score
\* widget; and a report saved in a session begun with Create New Report
\* holds one value for each category and one overall entry, nothing of what
\* was parsed before.
C13_ResetDiscards ==
    [][/\ (\E sk \in Skillsets : Reset(sk)) =>
              (mode' = "None" /\ prefill_meta' = EmptyDict /\ ~widget_keys')
       /\ (mode' = "new" /\ saves' = saves + 1) =>
              /\ \A c \in DOMAIN MetaOf(report'.val).category_history :
                     Len(MetaOf(report'.val).category_history[c]) = 1
              /\ Len(MetaOf(report'.val).overall_history) = 1
      ]_vars

\* the parser found no history in doc
NoHistoryFound(doc) ==
    LET r == parse_docx_report(doc)
    IN  /\ ~r.raised
        /\ r.meta.category_history = EmptyDict
        /\ r.meta.overall_history = << >>

\* C14: a report saved in an "edit" session whose upload gave no history
\* holds what a report saved in a "new" session with the same matrix holds:
\* for each category of the matrix the one rounded average of this
\* evaluation, and the one overall entry of this evaluation.
C14_NoHistoryEqualsNew ==
    (saves >= 1 /\ (mode = "new" \/ (mode = "edit" /\ session_doc.some
                                         /\ NoHistoryFound(session_doc.val)))) =>
        LET e == evals[Len(evals)]
        IN  /\ ReportMeta.category_history = [c \in DOMAIN e.avgs |-> << e.avgs[c] >>]
            /\ ReportMeta.overall_history = << << DateText(e.day), e.overall >> >>

\* the second report of an "edit" session begun with a document that holds
\* a heading and no history, both categories scored
C14_Witness ==
    /\ mode = "edit"
    /\ saves >= 2
    /\ session_doc.some
    /\ NoHistoryFound(session_doc.val)
    /\ prefill_meta.player_name.some
    /\ DOMAIN evals[Len(evals)].avgs = Cats

\* C18: create_docx_report leaves the histories the session holds as the
\* upload gave them, and every report saved in an "edit" session holds, for
\* each category of the current matrix, one value more than the uploaded
\* document, and one overall entry more, however many reports were saved
\* in the session before.
C18_SaveRepeatable ==
    (mode = "edit" /\ saves >= 1 /\ session_doc.some
         /\ ~parse_docx_report(session_doc.val).raised) =>
        LET up == MetaOf(session_doc.val)
        IN  /\ prefill_meta = up
            /\ \A c \in DOMAIN evals[Len(evals)].avgs :
                   Len(ReportMeta.category_history[c]) =
                       Len(DictGet(up.category_history, c, << >>)) + 1
            /\ Len(ReportMeta.overall_history) = Len(up.overall_history) + 1

====
